---------------------------- MODULE Spec2Model ----------------------------
(***************************************************************************)
(* fgp-postgres: the daemon lifecycle commands (start / stop / status) of  *)
(* src/main.rs, the transaction path of src/service.rs and src/client.rs,  *)
(* and the connection resolver of src/main.rs.                             *)
(*                                                                         *)
(* Several specifications share the module:                                *)
(*   Spec         the lifecycle commands racing with the process table     *)
(*   SpecTx       one `transaction` request through service and client     *)
(*   SpecResolve  resolve_connection over bounded environments             *)
(*   SpecPool     on_start and concurrent client operations on the pool    *)
(*   SpecQuery    PostgresClient::query converting a row set                *)
(*   SpecCli      cmd_start and cmd_connections over bounded configurations *)
(* Optional values are sequences: <<>> is None, <<v>> is Some(v).          *)
(***************************************************************************)
EXTENDS Integers, Sequences, FiniteSets, TLC

VARIABLES
    \* ---- filesystem and process table (lifecycle) ----
    socketFile,     \* Path::new(&socket_path).exists()
    pidFile,        \* content of <socket>.pid: <<>> absent, <<text>> present
    procs,          \* PID -> comm of the process running under it ("" = none)
    listener,       \* <<p>> when process p accepts on the socket
    \* ---- cmd_stop ----
    stopPc, stopSockSeen, stopConn, stopResp, stopReadPid, stopPidStr,
    stopPid, stopPsOut, stopSignalled, stopResult, stopOut,
    \* ---- cmd_status ----
    statusPc, statusSockSeen, statusConn, statusResp, statusReport,
    statusHealth, statusResult,
    \* ---- the database and one `transaction` request ----
    db,             \* committed rows of the table (a set of unique keys)
    poolInUse,      \* pooled connections currently checked out
    poolGets,       \* pool.get() calls made by the current request
    txPc, txParams, txStmts, txI, txWork, txResults, txWire, txReturn,
    dbBefore,       \* db when the current request was dispatched
    \* ---- resolve_connection ----
    env,            \* the process environment (std::env::var)
    cfgFile,        \* ~/.fgp/auth/postgres/connections.json, when it exists
    argName,        \* the --connection argument
    resPc, resolved,
    \* ---- the service's startup hook and concurrent client operations ----
    callOp,         \* caller -> the PostgresClient operation it runs
    callPc,         \* caller -> "idle", "get", "run", "ret", "done"
    callLeft,       \* caller -> round trips the operation has still to make
    callHeld,       \* caller -> pooled connections it holds
    callResult,     \* caller -> "none", "true", "false", "err"
    svcPc,          \* "new", "starting", "serving", "failed"
    hookResult,     \* what on_start returned: "none", "ok", "err"
    startProbes,    \* client.ping() calls made by on_start
    svcLog,         \* levels of the tracing events on_start emitted
    \* ---- PostgresClient::query ----
    qCols,          \* stmt.columns(): name and type, in projection order
    qRows,          \* the rows the server returned: per column <<>> (NULL)
                    \* or <<text>>
    qPc, qResult,
    \* ---- cmd_start and cmd_connections ----
    startPc,        \* "idle", "mkdir", "resolve", "print", "decide",
                    \* "serve", "done"
    startFg,        \* the --foreground flag
    startCfg,       \* what resolve_connection returned to cmd_start
    startOut,       \* lines cmd_start printed
    startResult,
    startForked,    \* daemonize.start() has forked
    startPid,       \* <<p>>: the process that runs the service
    connPc, connOut, connResult

fsVars     == <<socketFile, pidFile>>
envVars    == <<procs, listener>>
stopVars   == <<stopPc, stopSockSeen, stopConn, stopResp, stopReadPid,
                stopPidStr, stopPid, stopPsOut, stopSignalled, stopResult,
                stopOut>>
statusVars == <<statusPc, statusSockSeen, statusConn, statusResp,
                statusReport, statusHealth, statusResult>>
lifeVars   == <<fsVars, envVars, stopVars, statusVars>>

txVars     == <<db, poolInUse, poolGets, txPc, txParams, txStmts, txI,
                txWork, txResults, txWire, txReturn, dbBefore>>

resVars    == <<env, cfgFile, argName, resPc, resolved>>

poolVars   == <<callOp, callPc, callLeft, callHeld, callResult, svcPc,
                hookResult, startProbes, svcLog>>

queryVars  == <<qCols, qRows, qPc, qResult>>

startVars  == <<startPc, startFg, startCfg, startOut, startResult,
                startForked, startPid>>
connVars   == <<connPc, connOut, connResult>>
cliVars    == <<startVars, connVars>>

nonLifeVars == <<txVars, resVars, poolVars, queryVars, cliVars>>
nonTxVars   == <<lifeVars, resVars, poolVars, queryVars, cliVars>>
nonResVars  == <<lifeVars, txVars, poolVars, queryVars, cliVars>>
nonPoolVars == <<lifeVars, txVars, resVars, queryVars, cliVars>>
nonQueryVars == <<lifeVars, txVars, resVars, poolVars, cliVars>>
\* What cmd_start leaves alone besides the files and the process table, and
\* what cmd_connections leaves alone.
nonStartVars == <<stopVars, statusVars, txVars, resVars, poolVars, queryVars,
                  connVars>>
nonConnVars  == <<lifeVars, txVars, resVars, poolVars, queryVars, startVars>>

vars == <<lifeVars, txVars, resVars, poolVars, queryVars, cliVars>>

None == <<>>
Some(v) == <<v>>

(***************************************************************************)
(* Bounds                                                                  *)
(***************************************************************************)
NumPids == 2
PIDs == 1..NumPids

(***************************************************************************)
(* Strings: str::trim, str::contains, str::parse::<i32>, integer Display   *)
(***************************************************************************)
IsWs(c) == c \in {" ", "\n", "\t"}

RECURSIVE TrimStart(_)
TrimStart(s) ==
    IF Len(s) > 0 /\ IsWs(SubSeq(s, 1, 1))
    THEN TrimStart(SubSeq(s, 2, Len(s)))
    ELSE s

RECURSIVE TrimEnd(_)
TrimEnd(s) ==
    IF Len(s) > 0 /\ IsWs(SubSeq(s, Len(s), Len(s)))
    THEN TrimEnd(SubSeq(s, 1, Len(s) - 1))
    ELSE s

Trim(s) == TrimEnd(TrimStart(s))

Contains(s, sub) ==
    \E i \in 1..(Len(s) - Len(sub) + 1) : SubSeq(s, i, i + Len(sub) - 1) = sub

Digits == "0123456789"
Digit(d) == SubSeq(Digits, d + 1, d + 1)
IsDigit(c) == \E d \in 0..9 : Digit(d) = c
DigitVal(c) == CHOOSE d \in 0..9 : Digit(d) = c

RECURSIVE ToDec(_)
ToDec(n) == IF n < 10 THEN Digit(n) ELSE ToDec(n \div 10) \o Digit(n % 10)

RECURSIVE DecVal(_)
DecVal(s) ==
    IF Len(s) = 0 THEN 0
    ELSE 10 * DecVal(SubSeq(s, 1, Len(s) - 1)) + DigitVal(SubSeq(s, Len(s), Len(s)))

I32Max == 2147483647

\* str::parse::<i32>(): optional sign, then one or more digits, in range.
ParseI32(s) ==
    LET signed == Len(s) > 0 /\ SubSeq(s, 1, 1) \in {"+", "-"}
        body   == IF signed THEN SubSeq(s, 2, Len(s)) ELSE s
        neg    == signed /\ SubSeq(s, 1, 1) = "-"
    IN  IF Len(body) = 0 \/ Len(body) > 10
           \/ \E i \in 1..Len(body) : ~IsDigit(SubSeq(body, i, i))
        THEN None
        ELSE LET v == DecVal(body)
             IN  IF neg
                 THEN (IF v > I32Max + 1 THEN None ELSE Some(0 - v))
                 ELSE (IF v > I32Max THEN None ELSE Some(v))

(***************************************************************************)
(* The process table and the daemon's artifacts                            *)
(***************************************************************************)
expected_name == "fgp-postgres"

\* Command names of processes that are not this daemon.
OtherComms == {"fgp-postgres-exporter", "bash"}
Comms == {expected_name} \cup OtherComms

Alive(p) == p \in DOMAIN procs /\ procs[p] # ""

\* UnixStream::connect / FgpClient::new succeed when a live process accepts
\* on the socket path.
Connectable ==
    socketFile /\ listener # None /\ Alive(listener[1])

\* What daemonize's pid_file holds for process p.
PidText(p) == ToDec(p) \o "\n"

(***************************************************************************)
(* Environment: the daemon coming up (cmd_start), processes exiting and    *)
(* PIDs being reused.                                                      *)
(***************************************************************************)
\* cmd_start succeeded as process p: detached (daemonize writes the PID
\* file) or in the foreground (no PID file); FgpServer binds the socket.
DaemonStart(p, foreground) ==
    /\ ~Alive(p)
    /\ ~(listener # None /\ Alive(listener[1]))
    /\ procs' = [procs EXCEPT ![p] = expected_name]
    /\ listener' = Some(p)
    /\ socketFile' = TRUE
    /\ pidFile' = IF foreground THEN pidFile ELSE Some(PidText(p))
    /\ UNCHANGED <<stopVars, statusVars>>
    /\ UNCHANGED nonLifeVars

\* cmd_start as process p died inside daemonize: the PID file was created
\* but nothing was written to it and no socket was bound.
DaemonStartInterrupted(p) ==
    /\ ~Alive(p)
    /\ ~(listener # None /\ Alive(listener[1]))
    /\ pidFile' = Some("")
    /\ UNCHANGED <<socketFile, envVars, stopVars, statusVars>>
    /\ UNCHANGED nonLifeVars

\* Process p exits. A daemon that exits through its own shutdown path may
\* remove its socket (clean); one that is killed or crashes leaves it.
ProcExit(p, clean) ==
    /\ Alive(p)
    /\ procs' = [procs EXCEPT ![p] = ""]
    /\ IF listener = Some(p)
       THEN /\ listener' = None
            /\ socketFile' = IF clean THEN FALSE ELSE socketFile
       ELSE /\ clean = FALSE
            /\ UNCHANGED <<listener, socketFile>>
    /\ UNCHANGED <<pidFile, stopVars, statusVars>>
    /\ UNCHANGED nonLifeVars

\* An unrelated process is created under a free PID (PID reuse).
ProcSpawn(p, comm) ==
    /\ ~Alive(p)
    /\ procs' = [procs EXCEPT ![p] = comm]
    /\ UNCHANGED <<listener, fsVars, stopVars, statusVars>>
    /\ UNCHANGED nonLifeVars

(***************************************************************************)
(* cmd_stop                                                                *)
(***************************************************************************)
StopInvoke ==
    /\ stopPc = "idle"
    /\ stopPc' = "graceful"
    /\ UNCHANGED <<stopSockSeen, stopConn, stopResp, stopReadPid, stopPidStr,
                   stopPid, stopPsOut, stopSignalled, stopResult, stopOut>>
    /\ UNCHANGED <<fsVars, envVars, statusVars>>
    /\ UNCHANGED nonLifeVars

\* Mutant of StopGraceful: the acknowledged branch does not return.
StopGraceful_NoReturn(reply) ==
    /\ stopPc = "graceful"
    /\ stopSockSeen' = socketFile
    /\ stopConn' = IF ~socketFile THEN "none"
                   ELSE IF Connectable THEN "ok" ELSE "err"
    /\ stopResp' = IF socketFile /\ Connectable THEN reply ELSE "none"
    /\ reply = "fail" \/ (socketFile /\ Connectable)
    /\ stopOut' = IF stopResp' = "ok_true"
                  THEN Append(stopOut, "Daemon stopped.") ELSE stopOut
    /\ stopPc' = "read_pid"
    /\ UNCHANGED <<stopResult, stopReadPid, stopPidStr, stopPid, stopPsOut,
                   stopSignalled>>
    /\ UNCHANGED <<fsVars, envVars, statusVars>>
    /\ UNCHANGED nonLifeVars

\* Lines 238-247: the graceful attempt. reply is what client.stop() yields
\* when the connection was made: "fail" (Err), "ok_true" (response.ok) or
\* "ok_false".
StopGraceful(reply) ==
    /\ stopPc = "graceful"
    /\ stopSockSeen' = socketFile
    /\ stopConn' = IF ~socketFile THEN "none"
                   ELSE IF Connectable THEN "ok" ELSE "err"
    /\ stopResp' = IF socketFile /\ Connectable THEN reply ELSE "none"
    /\ reply = "fail" \/ (socketFile /\ Connectable)
    /\ IF stopResp' = "ok_true"
       THEN /\ stopOut' = Append(stopOut, "Daemon stopped.")
            /\ stopResult' = "ok"
            /\ stopPc' = "done"
       ELSE /\ stopPc' = "read_pid"
            /\ UNCHANGED <<stopOut, stopResult>>
    /\ UNCHANGED <<stopReadPid, stopPidStr, stopPid, stopPsOut, stopSignalled>>
    /\ UNCHANGED <<fsVars, envVars, statusVars>>
    /\ UNCHANGED nonLifeVars

\* Lines 250-252: read_to_string(pid_file), then trim().parse::<i32>().
StopReadPid ==
    /\ stopPc = "read_pid"
    /\ stopReadPid' = TRUE
    /\ stopPidStr' = pidFile
    /\ IF pidFile = None
       THEN /\ stopResult' = "err_read"
            /\ stopPc' = "done"
            /\ UNCHANGED stopPid
       ELSE LET pid == ParseI32(Trim(pidFile[1]))
            IN  IF pid = None
                THEN /\ stopResult' = "err_parse"
                     /\ stopPc' = "done"
                     /\ UNCHANGED stopPid
                ELSE /\ stopPid' = pid
                     /\ stopPc' = "check"
                     /\ UNCHANGED stopResult
    /\ UNCHANGED <<stopSockSeen, stopConn, stopResp, stopPsOut, stopSignalled,
                   stopOut>>
    /\ UNCHANGED <<fsVars, envVars, statusVars>>
    /\ UNCHANGED nonLifeVars

\* `ps -p <pid> -o comm=`: exit status and stdout.
PsOutput(pid) ==
    IF Alive(pid)
    THEN [success |-> TRUE, stdout |-> procs[pid] \o "\n"]
    ELSE [success |-> FALSE, stdout |-> ""]

\* Lines 274-286.
pid_matches_process(output, name) ==
    IF output.success
    THEN Contains(Trim(output.stdout), name)
    ELSE FALSE

\* Lines 254-256.
StopCheck ==
    /\ stopPc = "check"
    /\ LET output == PsOutput(stopPid[1])
       IN  /\ stopPsOut' = Some(output)
           /\ IF ~pid_matches_process(output, expected_name)
              THEN /\ stopResult' = "err_refused"
                   /\ stopPc' = "done"
              ELSE /\ stopPc' = "kill"
                   /\ UNCHANGED stopResult
    /\ UNCHANGED <<stopSockSeen, stopConn, stopResp, stopReadPid, stopPidStr,
                   stopPid, stopSignalled, stopOut>>
    /\ UNCHANGED <<fsVars, envVars, statusVars>>
    /\ UNCHANGED nonLifeVars

\* Lines 258-262: libc::kill(pid, SIGTERM) reaches whatever runs under the
\* PID at that moment.
StopKill ==
    /\ stopPc = "kill"
    /\ stopOut' = Append(stopOut, "Stopping fgp-postgres daemon (PID: "
                                  \o ToDec(stopPid[1]) \o ")...")
    /\ stopSignalled' =
           Some([pid |-> stopPid[1],
                 comm |-> IF Alive(stopPid[1]) THEN procs[stopPid[1]] ELSE ""])
    /\ stopPc' = "sleep"
    /\ UNCHANGED <<stopSockSeen, stopConn, stopResp, stopReadPid, stopPidStr,
                   stopPid, stopPsOut, stopResult>>
    /\ UNCHANGED <<fsVars, envVars, statusVars>>
    /\ UNCHANGED nonLifeVars

\* Line 264: the grace period has elapsed.
StopSleep ==
    /\ stopPc = "sleep"
    /\ stopPc' = "cleanup"
    /\ UNCHANGED <<stopSockSeen, stopConn, stopResp, stopReadPid, stopPidStr,
                   stopPid, stopPsOut, stopSignalled, stopResult, stopOut>>
    /\ UNCHANGED <<fsVars, envVars, statusVars>>
    /\ UNCHANGED nonLifeVars

\* Line 266: cleanup_socket(socket, Some(pid_file)) removes both files when
\* they exist; its result is discarded.
cleanup_socket(fs) == [socket |-> FALSE, pid |-> None]

\* Line 267: remove_file(pid_file); its result is discarded.
remove_file(content) == None

\* Lines 266-271.
StopCleanup ==
    /\ stopPc = "cleanup"
    /\ LET cleaned == cleanup_socket([socket |-> socketFile, pid |-> pidFile])
       IN  /\ socketFile' = cleaned.socket
           /\ pidFile' = remove_file(cleaned.pid)
    /\ stopOut' = Append(stopOut, "Daemon stopped.")
    /\ stopResult' = "ok"
    /\ stopPc' = "done"
    /\ UNCHANGED <<stopSockSeen, stopConn, stopResp, stopReadPid, stopPidStr,
                   stopPid, stopPsOut, stopSignalled>>
    /\ UNCHANGED <<envVars, statusVars>>
    /\ UNCHANGED nonLifeVars

\* The stop process exits with stopResult; its locals are gone.
StopReturn ==
    /\ stopPc = "done"
    /\ stopPc' = "idle"
    /\ stopSockSeen' = FALSE
    /\ stopConn' = "none"
    /\ stopResp' = "none"
    /\ stopReadPid' = FALSE
    /\ stopPidStr' = None
    /\ stopPid' = None
    /\ stopPsOut' = None
    /\ stopSignalled' = None
    /\ stopResult' = "none"
    /\ stopOut' = <<>>
    /\ UNCHANGED <<fsVars, envVars, statusVars>>
    /\ UNCHANGED nonLifeVars

(***************************************************************************)
(* cmd_status                                                              *)
(***************************************************************************)
StatusInvoke ==
    /\ statusPc = "idle"
    /\ statusPc' = "check_socket"
    /\ UNCHANGED <<statusSockSeen, statusConn, statusResp, statusReport,
                   statusHealth, statusResult>>
    /\ UNCHANGED <<fsVars, envVars, stopVars>>
    /\ UNCHANGED nonLifeVars

\* Mutant of StatusCheckSocket: an absent socket does not end the command.
StatusCheckSocket_NoReturn ==
    /\ statusPc = "check_socket"
    /\ statusSockSeen' = socketFile
    /\ statusPc' = "connect"
    /\ UNCHANGED <<statusReport, statusResult, statusConn, statusResp,
                   statusHealth>>
    /\ UNCHANGED <<fsVars, envVars, stopVars>>
    /\ UNCHANGED nonLifeVars

\* Lines 291-295.
StatusCheckSocket ==
    /\ statusPc = "check_socket"
    /\ statusSockSeen' = socketFile
    /\ IF ~socketFile
       THEN /\ statusReport' = "NOT RUNNING"
            /\ statusResult' = "ok"
            /\ statusPc' = "done"
       ELSE /\ statusPc' = "connect"
            /\ UNCHANGED <<statusReport, statusResult>>
    /\ UNCHANGED <<statusConn, statusResp, statusHealth>>
    /\ UNCHANGED <<fsVars, envVars, stopVars>>
    /\ UNCHANGED nonLifeVars

\* Lines 300-301 and 314-317: UnixStream::connect.
StatusConnect ==
    /\ statusPc = "connect"
    /\ IF Connectable
       THEN /\ statusConn' = "ok"
            /\ statusPc' = "health"
            /\ UNCHANGED <<statusReport, statusResult>>
       ELSE /\ statusConn' = "err"
            /\ statusReport' = "NOT RESPONDING"
            /\ statusResult' = "ok"
            /\ statusPc' = "done"
    /\ UNCHANGED <<statusSockSeen, statusResp, statusHealth>>
    /\ UNCHANGED <<fsVars, envVars, stopVars>>
    /\ UNCHANGED nonLifeVars

\* What the peer does with the one health request.
HealthReplies == {"write_err", "read_err", "eof", "ok_true", "ok_false"}

\* The line read_line delivers for a reply that delivers one.
ReplyLine(reply) ==
    CASE reply = "ok_true" ->
             "{\"id\":\"status\",\"ok\":true,\"result\":{\"status\":\"healthy\"}}\n"
      [] reply = "ok_false" ->
             "{\"id\":\"status\",\"ok\":false,\"error\":\"Failed to get connection\"}\n"
      [] OTHER -> ""

\* Lines 302-312: write the request, read one line, print.
StatusHealth(reply) ==
    /\ statusPc = "health"
    /\ IF reply \in {"write_err", "read_err"}
       THEN /\ statusResult' = "err_io"
            /\ UNCHANGED <<statusResp, statusReport, statusHealth>>
       ELSE /\ statusResp' = Some(ReplyLine(reply))
            /\ statusReport' = "RUNNING"
            /\ statusHealth' = Some(Trim(ReplyLine(reply)))
            /\ statusResult' = "ok"
    /\ statusPc' = "done"
    /\ UNCHANGED <<statusSockSeen, statusConn>>
    /\ UNCHANGED <<fsVars, envVars, stopVars>>
    /\ UNCHANGED nonLifeVars

\* The status process exits with statusResult; its locals are gone.
StatusReturn ==
    /\ statusPc = "done"
    /\ statusPc' = "idle"
    /\ statusSockSeen' = FALSE
    /\ statusConn' = "none"
    /\ statusResp' = None
    /\ statusReport' = "none"
    /\ statusHealth' = None
    /\ statusResult' = "none"
    /\ UNCHANGED <<fsVars, envVars, stopVars>>
    /\ UNCHANGED nonLifeVars

(***************************************************************************)
(* JSON parameter values (serde_json::Value) as far as the service looks   *)
(* at them                                                                 *)
(***************************************************************************)
JStr(str) == [t |-> "string", s |-> str, a |-> <<>>]
JNum(txt) == [t |-> "number", s |-> txt, a |-> <<>>]
JArr(arr) == [t |-> "array", s |-> "", a |-> arr]

\* Value::as_str, Value::as_array
as_str(v) == IF v.t = "string" THEN Some(v.s) ELSE None
as_array(v) == IF v.t = "array" THEN Some(v.a) ELSE None

\* arr.iter().filter_map(|v| v.as_str()).map(|s| s.to_string()).collect()
RECURSIVE FilterMapStr(_)
FilterMapStr(arr) ==
    IF arr = <<>> THEN <<>>
    ELSE LET rest == FilterMapStr(Tail(arr))
         IN  IF as_str(Head(arr)) = None
             THEN rest
             ELSE <<as_str(Head(arr))[1]>> \o rest

(***************************************************************************)
(* The database: one table with a unique key                               *)
(***************************************************************************)
NumKeys == 2
MaxStmts == 3
Keys == 1..NumKeys

SqlInsert(k) == "INSERT INTO t VALUES (" \o ToDec(k) \o ")"
SqlDelete(k) == "DELETE FROM t WHERE k = " \o ToDec(k)
SqlBad == "SELEKT 1"
Statements == {SqlInsert(k) : k \in Keys} \cup {SqlDelete(k) : k \in Keys}
              \cup {SqlBad}

\* The server's answer to one statement run against `rows`: a duplicate key
\* and a statement that does not parse fail and change nothing.
DbExecute(sql, rows) ==
    IF \E k \in Keys : sql = SqlInsert(k)
    THEN LET k == CHOOSE k \in Keys : sql = SqlInsert(k)
         IN  IF k \in rows
             THEN [ok |-> FALSE, n |-> 0, rows |-> rows]
             ELSE [ok |-> TRUE, n |-> 1, rows |-> rows \cup {k}]
    ELSE IF \E k \in Keys : sql = SqlDelete(k)
    THEN LET k == CHOOSE k \in Keys : sql = SqlDelete(k)
         IN  [ok |-> TRUE, n |-> IF k \in rows THEN 1 ELSE 0,
              rows |-> rows \ {k}]
    ELSE [ok |-> FALSE, n |-> 0, rows |-> rows]

\* One command as the server sees it on the connection.
WireMsg(kind, idx, sql, ok) ==
    [kind |-> kind, idx |-> idx, sql |-> sql, ok |-> ok]

NoReturn == [kind |-> "none", msg |-> "", committed |-> FALSE,
             statements |-> <<>>]
ErrReturn(msg) == [kind |-> "err", msg |-> msg, committed |-> FALSE,
                   statements |-> <<>>]

\* The values a request may carry under "statements".
JsonElems == {JStr(q) : q \in Statements} \cup {JNum("5")}
StatementsParams ==
    {None, Some(JStr(SqlBad))}
    \cup {Some(JArr(arr)) : arr \in UNION {[1..n -> JsonElems] : n \in 0..MaxStmts}}

(***************************************************************************)
(* PostgresService::transaction and PostgresClient::transaction            *)
(***************************************************************************)
\* FgpService::dispatch for "transaction" | "postgres.transaction": a
\* request arrives with some value (or none) under "statements".
SvcDispatch ==
    /\ txPc = "idle"
    /\ \E params \in StatementsParams : txParams' = params
    /\ txPc' = "validate"
    /\ dbBefore' = db
    /\ UNCHANGED <<db, poolInUse, poolGets, txStmts, txI, txWork, txResults,
                   txWire, txReturn>>
    /\ UNCHANGED nonTxVars

\* Mutant of SvcTransaction: the is_empty() check is missing.
SvcTransaction_NoEmptyCheck ==
    /\ txPc = "validate"
    /\ LET statements ==
               IF txParams = None \/ as_array(txParams[1]) = None
               THEN None
               ELSE Some(FilterMapStr(as_array(txParams[1])[1]))
       IN  IF statements = None
           THEN /\ txReturn' = ErrReturn(
                        "Missing required parameter: statements (array)")
                /\ txPc' = "done"
                /\ UNCHANGED txStmts
           ELSE /\ txStmts' = statements[1]
                /\ txPc' = "get"
                /\ UNCHANGED txReturn
    /\ UNCHANGED <<db, poolInUse, poolGets, txParams, txI, txWork, txResults,
                   txWire, dbBefore>>
    /\ UNCHANGED nonTxVars

\* service.rs lines 92-107: extract and validate the statements.
SvcTransaction ==
    /\ txPc = "validate"
    /\ LET statements ==
               IF txParams = None \/ as_array(txParams[1]) = None
               THEN None
               ELSE Some(FilterMapStr(as_array(txParams[1])[1]))
       IN  IF statements = None
           THEN /\ txReturn' = ErrReturn(
                        "Missing required parameter: statements (array)")
                /\ txPc' = "done"
                /\ UNCHANGED txStmts
           ELSE IF statements[1] = <<>>
           THEN /\ txReturn' = ErrReturn("statements array cannot be empty")
                /\ txPc' = "done"
                /\ UNCHANGED txStmts
           ELSE /\ txStmts' = statements[1]
                /\ txPc' = "get"
                /\ UNCHANGED txReturn
    /\ UNCHANGED <<db, poolInUse, poolGets, txParams, txI, txWork, txResults,
                   txWire, dbBefore>>
    /\ UNCHANGED nonTxVars

\* client.rs line 133: self.pool.get().await
ClientGet(ok) ==
    /\ txPc = "get"
    /\ poolGets' = poolGets + 1
    /\ IF ok
       THEN /\ poolInUse' = poolInUse + 1
            /\ txPc' = "begin"
            /\ UNCHANGED txReturn
       ELSE /\ txReturn' = ErrReturn("Failed to get connection")
            /\ txPc' = "done"
            /\ UNCHANGED poolInUse
    /\ UNCHANGED <<db, txParams, txStmts, txI, txWork, txResults, txWire,
                   dbBefore>>
    /\ UNCHANGED nonTxVars

\* client.rs line 134: client.transaction().await
ClientBegin(ok) ==
    /\ txPc = "begin"
    /\ txWire' = Append(txWire, WireMsg("begin", 0 - 1, "BEGIN", ok))
    /\ IF ok
       THEN /\ txWork' = Some(db)
            /\ txPc' = "exec"
            /\ UNCHANGED <<txReturn, poolInUse>>
       ELSE /\ txReturn' = ErrReturn("Failed to start transaction")
            /\ poolInUse' = poolInUse - 1
            /\ txPc' = "done"
            /\ UNCHANGED txWork
    /\ UNCHANGED <<db, poolGets, txParams, txStmts, txI, txResults, dbBefore>>
    /\ UNCHANGED nonTxVars

\* Mutant of ClientExecute: a failed statement is skipped and the loop goes
\* on to the next one.
ClientExecute_SkipFailed(fault) ==
    /\ txPc = "exec"
    /\ txI < Len(txStmts)
    /\ LET sql == txStmts[txI + 1]
           r   == IF fault THEN [ok |-> FALSE, n |-> 0, rows |-> txWork[1]]
                  ELSE DbExecute(sql, txWork[1])
       IN  /\ txWire' = Append(txWire, WireMsg("stmt", txI, sql, r.ok))
           /\ txWork' = Some(r.rows)
           /\ txResults' = IF r.ok
                           THEN Append(txResults, [statement |-> txI,
                                                   rows_affected |-> r.n])
                           ELSE txResults
           /\ txI' = txI + 1
    /\ UNCHANGED <<db, poolInUse, poolGets, txPc, txParams, txStmts,
                   txReturn, dbBefore>>
    /\ UNCHANGED nonTxVars

\* Mutant of ClientExecute: the statements are taken from the back of the
\* list.
ClientExecute_Reversed(fault) ==
    /\ txPc = "exec"
    /\ txI < Len(txStmts)
    /\ LET sql == txStmts[Len(txStmts) - txI]
           r   == IF fault THEN [ok |-> FALSE, n |-> 0, rows |-> txWork[1]]
                  ELSE DbExecute(sql, txWork[1])
       IN  IF r.ok
           THEN /\ txWire' = Append(txWire, WireMsg("stmt", txI, sql, TRUE))
                /\ txWork' = Some(r.rows)
                /\ txResults' = Append(txResults,
                       [statement |-> txI, rows_affected |-> r.n])
                /\ txI' = txI + 1
                /\ UNCHANGED <<txReturn, poolInUse, txPc>>
           ELSE /\ txReturn' = ErrReturn(
                       "Statement " \o ToDec(txI) \o " failed")
                /\ txWire' = Append(Append(txWire,
                       WireMsg("stmt", txI, sql, FALSE)),
                       WireMsg("rollback", 0 - 1, "ROLLBACK", TRUE))
                /\ txWork' = None
                /\ poolInUse' = poolInUse - 1
                /\ txPc' = "done"
                /\ UNCHANGED <<txResults, txI>>
    /\ UNCHANGED <<db, poolGets, txParams, txStmts, dbBefore>>
    /\ UNCHANGED nonTxVars

\* client.rs lines 137-146: one turn of the loop. The statement runs inside
\* the open transaction; it fails when the server rejects it or (fault) the
\* connection does. On failure `?` returns the error with the statement's
\* index; dropping the Transaction queues ROLLBACK and dropping the pooled
\* client returns the connection.
ClientExecute(fault) ==
    /\ txPc = "exec"
    /\ txI < Len(txStmts)
    /\ LET sql == txStmts[txI + 1]
           r   == IF fault THEN [ok |-> FALSE, n |-> 0, rows |-> txWork[1]]
                  ELSE DbExecute(sql, txWork[1])
       IN  IF r.ok
           THEN /\ txWire' = Append(txWire, WireMsg("stmt", txI, sql, TRUE))
                /\ txWork' = Some(r.rows)
                /\ txResults' = Append(txResults,
                       [statement |-> txI, rows_affected |-> r.n])
                /\ txI' = txI + 1
                /\ UNCHANGED <<txReturn, poolInUse, txPc>>
           ELSE /\ txReturn' = ErrReturn(
                       "Statement " \o ToDec(txI) \o " failed")
                /\ txWire' = Append(Append(txWire,
                       WireMsg("stmt", txI, sql, FALSE)),
                       WireMsg("rollback", 0 - 1, "ROLLBACK", TRUE))
                /\ txWork' = None
                /\ poolInUse' = poolInUse - 1
                /\ txPc' = "done"
                /\ UNCHANGED <<txResults, txI>>
    /\ UNCHANGED <<db, poolGets, txParams, txStmts, dbBefore>>
    /\ UNCHANGED nonTxVars

\* client.rs lines 148-153: tx.commit().await, then the result. A commit
\* that fails leaves the database as it was.
ClientCommit(ok) ==
    /\ txPc = "exec"
    /\ txI = Len(txStmts)
    /\ txWire' = Append(txWire, WireMsg("commit", 0 - 1, "COMMIT", ok))
    /\ IF ok
       THEN /\ db' = txWork[1]
            /\ txReturn' = [kind |-> "ok", msg |-> "", committed |-> TRUE,
                            statements |-> txResults]
       ELSE /\ txReturn' = ErrReturn("Failed to commit transaction")
            /\ UNCHANGED db
    /\ txWork' = None
    /\ poolInUse' = poolInUse - 1
    /\ txPc' = "done"
    /\ UNCHANGED <<poolGets, txParams, txStmts, txI, txResults, dbBefore>>
    /\ UNCHANGED nonTxVars

\* The response has been sent and the request's locals are dropped; the
\* service waits for the next request.
SvcReturn ==
    /\ txPc = "done"
    /\ txPc' = "idle"
    /\ txParams' = None
    /\ txStmts' = <<>>
    /\ txI' = 0
    /\ txResults' = <<>>
    /\ txWire' = <<>>
    /\ txReturn' = NoReturn
    /\ poolGets' = 0
    /\ dbBefore' = db
    /\ UNCHANGED <<db, poolInUse, txWork>>
    /\ UNCHANGED nonTxVars

(***************************************************************************)
(* ConnectionConfig and the connection resolver                            *)
(***************************************************************************)
Ok(cfg) == [ok |-> TRUE, cfg |-> cfg, err |-> ""]
NoConfig == [host |-> "", port |-> 0, user |-> "", password |-> None,
             database |-> "", ssl |-> FALSE]
Err(msg) == [ok |-> FALSE, cfg |-> NoConfig, err |-> msg]

U16Max == 65535

\* str::parse::<u16>(): an optional "+", digits, at most 65535.
ParseU16(s) ==
    IF Len(s) > 0 /\ SubSeq(s, 1, 1) = "-" THEN None
    ELSE IF ParseI32(s) = None \/ ParseI32(s)[1] > U16Max THEN None
    ELSE ParseI32(s)

\* str::trim_start_matches('/')
RECURSIVE TrimStartSlashes(_)
TrimStartSlashes(s) ==
    IF Len(s) > 0 /\ SubSeq(s, 1, 1) = "/"
    THEN TrimStartSlashes(SubSeq(s, 2, Len(s)))
    ELSE s

\* A URL string by what url::Url::parse makes of it: whether it parses, and
\* then host_str(), port(), username(), password(), path(), query_pairs().
Url(valid, host, port, username, password, path, query) ==
    [valid |-> valid, host |-> host, port |-> port, username |-> username,
     password |-> password, path |-> path, query |-> query]

\* client.rs lines 23-34.
from_url(url) ==
    IF ~url.valid
    THEN Err("Invalid DATABASE_URL format")
    ELSE Ok([host |-> IF url.host = None THEN "localhost" ELSE url.host[1],
             port |-> IF url.port = None THEN 5432 ELSE url.port[1],
             user |-> url.username,
             password |-> url.password,
             database |-> TrimStartSlashes(url.path),
             ssl |-> \E i \in 1..Len(url.query) :
                         url.query[i][1] = "sslmode"
                         /\ url.query[i][2] # "disable"])

\* client.rs lines 37-51.
from_env(e) ==
    Ok([host |-> IF e.PGHOST = None THEN "localhost" ELSE e.PGHOST[1],
        port |-> IF e.PGPORT = None \/ ParseU16(e.PGPORT[1]) = None
                 THEN 5432 ELSE ParseU16(e.PGPORT[1])[1],
        user |-> IF e.PGUSER = None THEN "postgres" ELSE e.PGUSER[1],
        password |-> e.PGPASSWORD,
        database |-> IF e.PGDATABASE = None THEN "postgres"
                     ELSE e.PGDATABASE[1],
        ssl |-> IF e.PGSSLMODE = None THEN FALSE
                ELSE e.PGSSLMODE[1] # "disable"])

\* main.rs lines 73-83: the descriptor of one NamedConnection.
EntryConfig(conn) ==
    IF conn.url # None
    THEN from_url(conn.url[1])
    ELSE Ok([host |-> IF conn.host = None THEN "localhost" ELSE conn.host[1],
             port |-> IF conn.port = None THEN 5432 ELSE conn.port[1],
             user |-> IF conn.user = None THEN "postgres" ELSE conn.user[1],
             password |-> conn.password,
             database |-> IF conn.database = None THEN "postgres"
                          ELSE conn.database[1],
             ssl |-> IF conn.ssl = None THEN FALSE ELSE conn.ssl[1]])

NoConnectionConfigured == Err("No database connection configured.")

\* The file tier with an explicit name that has no entry falling back to the
\* entry of the file's default.
FileTier_DefaultFallback(name, file) ==
    IF file = None
    THEN NoConnectionConfigured
    ELSE IF ~file[1].parses
    THEN Err("Failed to parse connections.json")
    ELSE LET conn_name ==
                 IF name # None /\ name[1] \in DOMAIN file[1].connections
                 THEN name ELSE file[1].default
         IN  IF conn_name # None
                /\ conn_name[1] \in DOMAIN file[1].connections
             THEN EntryConfig(file[1].connections[conn_name[1]])
             ELSE NoConnectionConfigured

\* main.rs lines 63-91: the connections file, then the final bail!.
FileTier(name, file) ==
    IF file = None
    THEN NoConnectionConfigured
    ELSE IF ~file[1].parses
    THEN Err("Failed to parse connections.json")
    ELSE LET conn_name == IF name # None THEN name ELSE file[1].default
         IN  IF conn_name # None
                /\ conn_name[1] \in DOMAIN file[1].connections
             THEN EntryConfig(file[1].connections[conn_name[1]])
             ELSE NoConnectionConfigured

\* main.rs lines 52-92.
resolve_connection(name, e, file) ==
    IF e.DATABASE_URL # None
    THEN from_url(e.DATABASE_URL[1])
    ELSE IF e.PGHOST # None
    THEN from_env(e)
    ELSE FileTier(name, file)

(***************************************************************************)
(* The environments, files and names resolve_connection is run on          *)
(***************************************************************************)
UrlFull ==
    Url(TRUE, Some("db.example.com"), Some(6543), "alice", Some("s3cret"),
        "/app", <<<<"sslmode", "require">>>>)
UrlBare == Url(TRUE, None, None, "bob", None, "/shop", <<>>)
UrlBad  == Url(FALSE, None, None, "", None, "", <<>>)
\* A URL with a password whose port is not a number: it does not parse.
UrlBadSecret ==
    Url(FALSE, Some("db.example.com"), None, "alice", Some("pa55word"),
        "/app", <<>>)
\* postgres://db.example.com : no user, no path.
UrlHostOnly == Url(TRUE, Some("db.example.com"), None, "", None, "", <<>>)
FileUrl ==
    Url(TRUE, Some("files.example.com"), None, "carol", Some("hunter2"),
        "/ledger", <<<<"sslmode", "disable">>>>)

Environments ==
    [DATABASE_URL : {None, Some(UrlFull), Some(UrlBare), Some(UrlBad),
                     Some(UrlHostOnly), Some(UrlBadSecret)},
     PGHOST       : {None, Some("pg.internal")},
     PGPORT       : {None, Some("6432"), Some("http"), Some("0")},
     PGUSER       : {None, Some("dave"), Some("")},
     PGPASSWORD   : {None, Some("pgpass")},
     PGDATABASE   : {None, Some("metrics")},
     PGSSLMODE    : {None, Some("disable"), Some("require")}]

NamedConnection(url, host, port, user, password, database, ssl) ==
    [url |-> url, host |-> host, port |-> port, user |-> user,
     password |-> password, database |-> database, ssl |-> ssl]

Entries ==
    {NamedConnection(Some(FileUrl), None, None, None, None, None, None),
     NamedConnection(None, Some("10.0.0.7"), Some(5444), Some("erin"),
                     Some("filepw"), Some("orders"), Some(TRUE)),
     NamedConnection(None, None, None, None, None, None, None),
     NamedConnection(None, None, Some(0), Some(""), None, Some(""), None),
     NamedConnection(Some(UrlBadSecret), None, None, None, None, None, None)}

Names == {"a", "b"}

ConnectionsConfig(parses, connections, default) ==
    [parses |-> parses, connections |-> connections, default |-> default]

ConfigFiles ==
    {None, Some(ConnectionsConfig(FALSE, <<>>, None))}
    \cup {Some(ConnectionsConfig(TRUE, conns, def)) :
             conns \in UNION {[D -> Entries] : D \in SUBSET Names},
             def \in {None} \cup {Some(n) : n \in Names}}

NameArgs == {None} \cup {Some(n) : n \in Names}

NoEnvironment ==
    [DATABASE_URL |-> None, PGHOST |-> None, PGPORT |-> None,
     PGUSER |-> None, PGPASSWORD |-> None, PGDATABASE |-> None,
     PGSSLMODE |-> None]

\* cmd_start / cmd_query / cmd_tables: resolve_connection(connection.as_deref())
Resolve ==
    /\ resPc = "call"
    /\ resolved' = resolve_connection(argName, env, cfgFile)
    /\ resPc' = "done"
    /\ UNCHANGED <<env, cfgFile, argName>>
    /\ UNCHANGED nonResVars

(***************************************************************************)
(* PostgresClient operations on the pool, and the service's on_start       *)
(***************************************************************************)
NumCallers == 2
PoolSize == 1
Callers == 1..NumCallers

\* The operations of impl PostgresClient that FgpService::dispatch and
\* health_check reach.
ClientOps == {"ping", "query", "execute", "transaction", "list_tables",
              "table_schema", "list_schemas", "stats"}

\* Operations that are client.ping(): the last reply is compared with 1.
PingOps == {"ping", "on_start"}

\* The awaited round trips an operation makes on its connection: ping one
\* query_one; query (and list_tables, list_schemas through it) prepare and
\* query; execute one; a transaction of one statement BEGIN, the statement,
\* COMMIT; table_schema three times prepare and query; stats four query_one.
RoundTrips(op) ==
    CASE op \in PingOps -> 1
      [] op \in {"query", "list_tables", "list_schemas"} -> 2
      [] op = "execute" -> 1
      [] op = "transaction" -> 3
      [] op = "table_schema" -> 6
      [] op = "stats" -> 4

RECURSIVE SumHeld(_)
SumHeld(S) ==
    IF S = {} THEN 0
    ELSE LET c == CHOOSE c \in S : TRUE
         IN  callHeld[c] + SumHeld(S \ {c})

\* Connections of the pool that are checked out.
InUse == SumHeld(Callers)

\* service.rs lines 224-231: on_start logs and calls client.ping().
OnStartCall(c) ==
    /\ svcPc = "new"
    /\ callPc[c] = "idle"
    /\ svcPc' = "starting"
    /\ svcLog' = Append(svcLog, "info")
    /\ startProbes' = startProbes + 1
    /\ callOp' = [callOp EXCEPT ![c] = "on_start"]
    /\ callPc' = [callPc EXCEPT ![c] = "get"]
    /\ callLeft' = [callLeft EXCEPT ![c] = RoundTrips("on_start")]
    /\ UNCHANGED <<callHeld, callResult, hookResult>>
    /\ UNCHANGED nonPoolVars

\* service.rs lines 231-245: the match on the result of the ping.  What the
\* server does with a hook that returned Err is the fgp_daemon crate's
\* choice: it may serve or give up.
OnStartReturn(c, serve) ==
    /\ svcPc = "starting"
    /\ callOp[c] = "on_start"
    /\ callPc[c] = "done"
    /\ callResult[c] = "err" \/ serve
    /\ svcLog' = Append(svcLog, CASE callResult[c] = "true" -> "info"
                                  [] callResult[c] = "false" -> "warn"
                                  [] OTHER -> "error")
    /\ hookResult' = IF callResult[c] = "err" THEN "err" ELSE "ok"
    /\ svcPc' = IF serve THEN "serving" ELSE "failed"
    /\ callOp' = [callOp EXCEPT ![c] = "none"]
    /\ callPc' = [callPc EXCEPT ![c] = "idle"]
    /\ callResult' = [callResult EXCEPT ![c] = "none"]
    /\ UNCHANGED <<callLeft, callHeld, startProbes>>
    /\ UNCHANGED nonPoolVars

\* service.rs lines 53-146, 248-253: a handler hands one operation to the
\* client on the run-loop.
Call(c, op) ==
    /\ svcPc = "serving"
    /\ callPc[c] = "idle"
    /\ callOp' = [callOp EXCEPT ![c] = op]
    /\ callPc' = [callPc EXCEPT ![c] = "get"]
    /\ callLeft' = [callLeft EXCEPT ![c] = RoundTrips(op)]
    /\ UNCHANGED <<callHeld, callResult, svcPc, hookResult, startProbes,
                   svcLog>>
    /\ UNCHANGED nonPoolVars

\* self.pool.get().await yields a connection once one is free.
Acquire(c) ==
    /\ callPc[c] = "get"
    /\ InUse < PoolSize
    /\ callHeld' = [callHeld EXCEPT ![c] = @ + 1]
    /\ callPc' = [callPc EXCEPT ![c] = "run"]
    /\ UNCHANGED <<callOp, callLeft, callResult, svcPc, hookResult,
                   startProbes, svcLog>>
    /\ UNCHANGED nonPoolVars

\* self.pool.get().await.context("Failed to get connection")? fails.
AcquireFail(c) ==
    /\ callPc[c] = "get"
    /\ callResult' = [callResult EXCEPT ![c] = "err"]
    /\ callPc' = [callPc EXCEPT ![c] = "done"]
    /\ UNCHANGED <<callOp, callLeft, callHeld, svcPc, hookResult,
                   startProbes, svcLog>>
    /\ UNCHANGED nonPoolVars

\* One awaited round trip on the held connection; a failure (or a failed
\* conversion of its rows) ends the operation through `?`.
RoundTrip(c, reply) ==
    /\ callPc[c] = "run"
    /\ callLeft[c] > 0
    /\ reply = "not_one" => (callOp[c] \in PingOps /\ callLeft[c] = 1)
    /\ IF reply = "ok" /\ callLeft[c] > 1
       THEN /\ callLeft' = [callLeft EXCEPT ![c] = @ - 1]
            /\ UNCHANGED <<callPc, callResult>>
       ELSE /\ callLeft' = [callLeft EXCEPT ![c] = 0]
            /\ callPc' = [callPc EXCEPT ![c] = "ret"]
            /\ callResult' = [callResult EXCEPT ![c] =
                                 CASE reply = "ok" -> "true"
                                   [] reply = "not_one" -> "false"
                                   [] OTHER -> "err"]
    /\ UNCHANGED <<callOp, callHeld, svcPc, hookResult, startProbes, svcLog>>
    /\ UNCHANGED nonPoolVars

\* Mutant of Return: an operation that failed keeps its connection.
Return_LeakOnError(c) ==
    /\ callPc[c] = "ret"
    /\ callHeld' = [callHeld EXCEPT ![c] =
                       IF callResult[c] = "err" THEN @ ELSE 0]
    /\ callPc' = [callPc EXCEPT ![c] = "done"]
    /\ UNCHANGED <<callOp, callLeft, callResult, svcPc, hookResult,
                   startProbes, svcLog>>
    /\ UNCHANGED nonPoolVars

\* The operation returns: its `client` goes out of scope and the connection
\* is back in the pool, on Ok and on every `?`.
Return(c) ==
    /\ callPc[c] = "ret"
    /\ callHeld' = [callHeld EXCEPT ![c] = 0]
    /\ callPc' = [callPc EXCEPT ![c] = "done"]
    /\ UNCHANGED <<callOp, callLeft, callResult, svcPc, hookResult,
                   startProbes, svcLog>>
    /\ UNCHANGED nonPoolVars

\* The handler hands the result to its caller.
Complete(c) ==
    /\ callPc[c] = "done"
    /\ callOp[c] # "on_start"
    /\ callOp' = [callOp EXCEPT ![c] = "none"]
    /\ callPc' = [callPc EXCEPT ![c] = "idle"]
    /\ callResult' = [callResult EXCEPT ![c] = "none"]
    /\ UNCHANGED <<callLeft, callHeld, svcPc, hookResult, startProbes,
                   svcLog>>
    /\ UNCHANGED nonPoolVars

(***************************************************************************)
(* The value converter and PostgresClient::query                           *)
(***************************************************************************)
MaxCols == 2
MaxRows == 1

\* Column types: the arms of the match in row_value_to_json, the types the
\* NULL probes accept (text, bytea), and one type with no arm (numeric).
PgTypes == {"bool", "int2", "int4", "int8", "float4", "float8", "json",
            "jsonb", "timestamp", "timestamptz", "date", "uuid", "text",
            "bytea", "numeric"}

\* FromSql::accepts of the Rust types the converter extracts.
Accepts(rust, ty) ==
    CASE rust = "bytes"         -> ty = "bytea"
      [] rust = "String"        -> ty = "text"
      [] rust = "bool"          -> ty = "bool"
      [] rust = "i16"           -> ty = "int2"
      [] rust = "i32"           -> ty = "int4"
      [] rust = "i64"           -> ty = "int8"
      [] rust = "f32"           -> ty = "float4"
      [] rust = "f64"           -> ty = "float8"
      [] rust = "Value"         -> ty \in {"json", "jsonb"}
      [] rust = "NaiveDateTime" -> ty = "timestamp"
      [] rust = "NaiveDate"     -> ty = "date"

\* Row::try_get::<_, Option<T>>(idx): WrongType unless T accepts the column
\* type, else the value, None for NULL.
try_get(rust, ty, val) ==
    IF Accepts(rust, ty) THEN [ok |-> TRUE, v |-> val]
    ELSE [ok |-> FALSE, v |-> None]

\* .ok().flatten()
OkFlatten(r) == IF r.ok THEN r.v ELSE None

JNull == [t |-> "null", s |-> "", a |-> <<>>]

OkJson(v) == [kind |-> "ok", v |-> v]
Panic == [kind |-> "panic", v |-> JNull]

\* Row::get::<_, Option<T>>(idx) mapped to a JSON value of kind `json`:
\* panics where try_get fails.
get_map(rust, ty, val, json) ==
    IF ~try_get(rust, ty, val).ok THEN Panic
    ELSE IF val = None THEN OkJson(JNull)
    ELSE OkJson([t |-> json, s |-> val[1], a |-> <<>>])

\* try_get::<_, Option<String>>(idx).ok().flatten() mapped to a JSON string.
try_get_string(ty, val) ==
    IF OkFlatten(try_get("String", ty, val)) = None THEN OkJson(JNull)
    ELSE OkJson(JStr(OkFlatten(try_get("String", ty, val))[1]))

\* client.rs lines 298-362.
row_value_to_json(ty, val) ==
    IF /\ OkFlatten(try_get("bytes", ty, val)) = None
       /\ OkFlatten(try_get("String", ty, val)) = None
       /\ OkFlatten(try_get("i32", ty, val)) = None
       /\ try_get("String", ty, val) = [ok |-> TRUE, v |-> None]
    THEN OkJson(JNull)
    ELSE CASE ty = "bool"   -> get_map("bool", ty, val, "bool")
           [] ty = "int2"   -> get_map("i16", ty, val, "number")
           [] ty = "int4"   -> get_map("i32", ty, val, "number")
           [] ty = "int8"   -> get_map("i64", ty, val, "number")
           [] ty = "float4" -> get_map("f32", ty, val, "number")
           [] ty = "float8" -> get_map("f64", ty, val, "number")
           [] ty \in {"json", "jsonb"} -> get_map("Value", ty, val, "json")
           [] ty \in {"timestamptz", "timestamp"} ->
                  get_map("NaiveDateTime", ty, val, "string")
           [] ty = "date"   -> get_map("NaiveDate", ty, val, "string")
           [] ty = "uuid"   -> try_get_string(ty, val)
           [] OTHER         -> try_get_string(ty, val)

\* serde_json::Map::insert: a key already present gets the new value.
MapInsert(obj, key, value) ==
    [k \in DOMAIN obj \cup {key} |-> IF k = key THEN value ELSE obj[k]]

\* client.rs lines 106-111: one row-object, columns i..n inserted in order;
\* a conversion that panics ends the call.
RECURSIVE RowObject(_, _, _, _)
RowObject(cols, row, i, obj) ==
    IF i > Len(cols) THEN [kind |-> "ok", obj |-> obj]
    ELSE LET value == row_value_to_json(cols[i].type, row[i])
         IN  IF value.kind = "panic" THEN [kind |-> "panic", obj |-> obj]
             ELSE RowObject(cols, row, i + 1,
                            MapInsert(obj, cols[i].name, value.v))

\* client.rs lines 104-112: the loop over the rows.
RECURSIVE RowObjects(_, _, _, _)
RowObjects(cols, rows, r, results) ==
    IF r > Len(rows) THEN [kind |-> "ok", rows |-> results]
    ELSE LET o == RowObject(cols, rows[r], 1, <<>>)
         IN  IF o.kind = "panic" THEN [kind |-> "panic", rows |-> results]
             ELSE RowObjects(cols, rows, r + 1, Append(results, o.obj))

QueryPanicked == [kind |-> "panic", rows |-> <<>>, row_count |-> 0,
                  columns |-> <<>>]
QueryPending == [kind |-> "none", rows |-> <<>>, row_count |-> 0,
                 columns |-> <<>>]

\* client.rs lines 100-118, after prepare and query have succeeded.
query(cols, rows) ==
    LET columns == [i \in 1..Len(cols) |-> cols[i].name]
        results == RowObjects(cols, rows, 1, <<>>)
    IN  IF results.kind = "panic" THEN QueryPanicked
        ELSE [kind |-> "ok", rows |-> results.rows,
              row_count |-> Len(results.rows), columns |-> columns]

\* A non-NULL value of each type, in the server's text form.
SampleValue(ty) ==
    CASE ty = "bool" -> "t"
      [] ty \in {"int2", "int4", "int8"} -> "7"
      [] ty \in {"float4", "float8", "numeric"} -> "1.5"
      [] ty \in {"json", "jsonb"} -> "{}"
      [] ty \in {"timestamp", "timestamptz"} -> "2024-01-02 03:04:05"
      [] ty = "date" -> "2024-01-02"
      [] ty = "uuid" -> "6f1c8a52-0000-4000-8000-000000000001"
      [] ty = "text" -> "hello"
      [] ty = "bytea" -> "\\x00"

\* The projections of the statements: up to MaxCols columns of any types,
\* each under its own name or all under the alias "a".
TypeLists == UNION {[1..n -> PgTypes] : n \in 0..MaxCols}
ColumnName(i, shared) == IF shared THEN "a" ELSE "c" \o ToDec(i)
StmtColumns(types, shared) ==
    [i \in 1..Len(types) |-> [name |-> ColumnName(i, shared),
                              type |-> types[i]]]

\* The row sets a statement with these columns may return: up to MaxRows
\* rows, every value NULL or the sample of its column's type.
RowsOf(cols) ==
    LET Row(mask) == [i \in 1..Len(cols) |->
                          IF mask[i] THEN None
                          ELSE Some(SampleValue(cols[i].type))]
        OneRow == {Row(mask) : mask \in [1..Len(cols) -> BOOLEAN]}
    IN  UNION {[1..n -> OneRow] : n \in 0..MaxRows}

\* PostgresClient::query returns (or panics) on the rows it was sent.
Query ==
    /\ qPc = "call"
    /\ qResult' = query(qCols, qRows)
    /\ qPc' = "done"
    /\ UNCHANGED <<qCols, qRows>>
    /\ UNCHANGED nonQueryVars

(***************************************************************************)
(* cmd_start                                                               *)
(***************************************************************************)
SocketPath == "/tmp/fgp-postgres.sock"

\* main.rs lines 179-181: create_dir_all(parent)?
StartMkdir(ok) ==
    /\ startPc = "mkdir"
    /\ IF ok
       THEN /\ startPc' = "resolve"
            /\ UNCHANGED startResult
       ELSE /\ startPc' = "done"
            /\ startResult' = "err_mkdir"
    /\ UNCHANGED <<startFg, startCfg, startOut, startForked, startPid>>
    /\ UNCHANGED <<fsVars, envVars>>
    /\ UNCHANGED nonStartVars

\* Mutant of StartResolve: a failed resolution is not returned here.
StartResolve_Deferred ==
    /\ startPc = "resolve"
    /\ startCfg' = resolve_connection(argName, env, cfgFile)
    /\ startPc' = "print"
    /\ UNCHANGED <<startFg, startOut, startResult, startForked, startPid>>
    /\ UNCHANGED <<fsVars, envVars>>
    /\ UNCHANGED nonStartVars

\* main.rs line 185: resolve_connection(connection.as_deref())?
StartResolve ==
    /\ startPc = "resolve"
    /\ startCfg' = resolve_connection(argName, env, cfgFile)
    /\ IF startCfg'.ok
       THEN /\ startPc' = "print"
            /\ UNCHANGED startResult
       ELSE /\ startPc' = "done"
            /\ startResult' = "err_resolve"
    /\ UNCHANGED <<startFg, startOut, startForked, startPid>>
    /\ UNCHANGED <<fsVars, envVars>>
    /\ UNCHANGED nonStartVars

\* main.rs lines 189-194.
StartPrint ==
    /\ startPc = "print"
    /\ startOut' = startOut \o
           <<"Starting fgp-postgres daemon...",
             "Socket: " \o SocketPath,
             "Database: " \o startCfg.cfg.user \o "@" \o startCfg.cfg.host
                 \o ":" \o ToDec(startCfg.cfg.port) \o "/"
                 \o startCfg.cfg.database>>
    /\ startPc' = "decide"
    /\ UNCHANGED <<startFg, startCfg, startResult, startForked, startPid>>
    /\ UNCHANGED <<fsVars, envVars>>
    /\ UNCHANGED nonStartVars

\* main.rs lines 196, 206-212, 224-227: in the foreground the invoking
\* process p goes on to serve; otherwise daemonize.start() forks the child
\* p and writes the PID file, or fails and the process exits with status 1.
StartDecide(p, ok) ==
    /\ startPc = "decide"
    /\ ~Alive(p)
    /\ IF startFg
       THEN /\ ok
            /\ procs' = [procs EXCEPT ![p] = expected_name]
            /\ startPid' = Some(p)
            /\ startPc' = "serve"
            /\ UNCHANGED <<pidFile, startForked, startResult>>
       ELSE IF ok
       THEN /\ procs' = [procs EXCEPT ![p] = expected_name]
            /\ startPid' = Some(p)
            /\ startForked' = TRUE
            /\ pidFile' = Some(PidText(p))
            /\ startPc' = "serve"
            /\ UNCHANGED startResult
       ELSE /\ startResult' = "exit_1"
            /\ startPc' = "done"
            /\ UNCHANGED <<procs, pidFile, startForked, startPid>>
    /\ UNCHANGED <<startFg, startCfg, startOut>>
    /\ UNCHANGED <<socketFile, listener>>
    /\ UNCHANGED nonStartVars

\* main.rs lines 201-204, 218-222: PostgresService::new, FgpServer::new and
\* serve() bind the socket and accept, or fail and the process ends.
StartServe(ok) ==
    /\ startPc = "serve"
    /\ IF ok
       THEN /\ socketFile' = TRUE
            /\ listener' = startPid
            /\ startResult' = "serving"
            /\ UNCHANGED procs
       ELSE /\ procs' = [procs EXCEPT ![startPid[1]] = ""]
            /\ startResult' = "err_serve"
            /\ UNCHANGED <<socketFile, listener>>
    /\ startPc' = "done"
    /\ UNCHANGED <<startFg, startCfg, startOut, startForked, startPid>>
    /\ UNCHANGED pidFile
    /\ UNCHANGED nonStartVars

(***************************************************************************)
(* cmd_connections                                                         *)
(***************************************************************************)
\* The query pairs of a URL as text: k=v joined by &.
RECURSIVE QueryText(_)
QueryText(pairs) ==
    IF pairs = <<>> THEN ""
    ELSE Head(pairs)[1] \o "=" \o Head(pairs)[2]
         \o (IF Len(pairs) > 1 THEN "&" ELSE "") \o QueryText(Tail(pairs))

\* The text of a URL with `pw` in the password position.  The port of a URL
\* that does not parse is written as the word that makes it invalid.
UrlText(u, pw) ==
    "postgres://"
    \o (IF u.username = "" /\ pw = None THEN ""
        ELSE u.username \o (IF pw = None THEN "" ELSE ":" \o pw[1]) \o "@")
    \o (IF u.host = None THEN "" ELSE u.host[1])
    \o (IF ~u.valid THEN ":http"
        ELSE IF u.port = None THEN "" ELSE ":" \o ToDec(u.port[1]))
    \o u.path
    \o (IF u.query = <<>> THEN "" ELSE "?" \o QueryText(u.query))

\* The URL string as it stands in the file or the environment.
UrlString(u) == UrlText(u, u.password)

\* main.rs lines 365-372, 398-405: parse, set_password(Some("***")) when a
\* password is present, to_string(); the string itself when parse fails.
MaskUrl(u) ==
    IF u.valid
    THEN UrlText(u, IF u.password # None THEN Some("***") ELSE None)
    ELSE UrlString(u)

\* main.rs lines 358-384: the line printed for one entry.
ConnectionLine(name, conn, default) ==
    "  " \o name \o (IF default = Some(name) THEN " (default)" ELSE "")
    \o ": "
    \o (IF conn.url # None
        THEN MaskUrl(conn.url[1])
        ELSE (IF conn.user = None THEN "postgres" ELSE conn.user[1])
             \o "@" \o (IF conn.host = None THEN "localhost"
                        ELSE conn.host[1])
             \o ":" \o ToDec(IF conn.port = None THEN 5432 ELSE conn.port[1])
             \o "/" \o (IF conn.database = None THEN "postgres"
                        ELSE conn.database[1]))

\* The orders in which a HashMap with these keys may be iterated.
Orders(S) ==
    {o \in [1..Cardinality(S) -> S] : \A k \in S : \E i \in DOMAIN o : o[i] = k}

\* main.rs lines 396-408.
EnvironmentLines(e) ==
    IF e.DATABASE_URL # None
    THEN <<"", "Environment:", "  DATABASE_URL: " \o MaskUrl(e.DATABASE_URL[1])>>
    ELSE <<>>

\* main.rs lines 350-411.
CmdConnections ==
    /\ connPc = "call"
    /\ connPc' = "done"
    /\ IF cfgFile = None
       THEN /\ connOut' = <<"No connections configured.",
                            "Create ~/.fgp/auth/postgres/connections.json"
                                \o " or set DATABASE_URL env var.">>
                          \o EnvironmentLines(env)
            /\ connResult' = "ok"
       ELSE IF ~cfgFile[1].parses
       THEN /\ connOut' = <<>>
            /\ connResult' = "err"
       ELSE \E order \in Orders(DOMAIN cfgFile[1].connections) :
               /\ connOut' =
                      <<"Configured connections:">>
                      \o [i \in DOMAIN order |->
                             ConnectionLine(order[i],
                                            cfgFile[1].connections[order[i]],
                                            cfgFile[1].default)]
                      \o EnvironmentLines(env)
               /\ connResult' = "ok"
    /\ UNCHANGED nonConnVars

\* The environments cmd_start and cmd_connections are run in.
CliEnvironments ==
    {e \in Environments :
        /\ e.DATABASE_URL \in {None, Some(UrlFull), Some(UrlBad),
                               Some(UrlBadSecret)}
        /\ e.PGPORT = None
        /\ e.PGUSER = None
        /\ e.PGDATABASE = None
        /\ e.PGSSLMODE = None}

(***************************************************************************)
(* The lifecycle specification                                             *)
(***************************************************************************)
InitLife ==
    /\ socketFile = FALSE
    /\ pidFile = None
    /\ procs = [p \in PIDs |-> ""]
    /\ listener = None
    /\ stopPc = "idle"
    /\ stopSockSeen = FALSE
    /\ stopConn = "none"
    /\ stopResp = "none"
    /\ stopReadPid = FALSE
    /\ stopPidStr = None
    /\ stopPid = None
    /\ stopPsOut = None
    /\ stopSignalled = None
    /\ stopResult = "none"
    /\ stopOut = <<>>
    /\ statusPc = "idle"
    /\ statusSockSeen = FALSE
    /\ statusConn = "none"
    /\ statusResp = None
    /\ statusReport = "none"
    /\ statusHealth = None
    /\ statusResult = "none"

InitTx ==
    /\ db = {}
    /\ poolInUse = 0
    /\ poolGets = 0
    /\ txPc = "idle"
    /\ txParams = None
    /\ txStmts = <<>>
    /\ txI = 0
    /\ txWork = None
    /\ txResults = <<>>
    /\ txWire = <<>>
    /\ txReturn = NoReturn
    /\ dbBefore = {}

\* PostgresService::new has returned; on_start has not run.
InitPool ==
    /\ callOp = [c \in Callers |-> "none"]
    /\ callPc = [c \in Callers |-> "idle"]
    /\ callLeft = [c \in Callers |-> 0]
    /\ callHeld = [c \in Callers |-> 0]
    /\ callResult = [c \in Callers |-> "none"]
    /\ svcPc = "new"
    /\ hookResult = "none"
    /\ startProbes = 0
    /\ svcLog = <<>>

\* No query in progress.
InitQueryIdle ==
    /\ qCols = <<>>
    /\ qRows = <<>>
    /\ qPc = "idle"
    /\ qResult = QueryPending

\* prepare and query have succeeded on some statement.
InitQueryCall ==
    /\ \E types \in TypeLists, shared \in BOOLEAN :
           qCols = StmtColumns(types, shared)
    /\ qRows \in RowsOf(qCols)
    /\ qPc = "call"
    /\ qResult = QueryPending

\* Neither cmd_start nor cmd_connections is running.
InitCliIdle ==
    /\ startPc = "idle"
    /\ startFg = FALSE
    /\ startCfg = NoConnectionConfigured
    /\ startOut = <<>>
    /\ startResult = "none"
    /\ startForked = FALSE
    /\ startPid = None
    /\ connPc = "idle"
    /\ connOut = <<>>
    /\ connResult = "none"

\* `start` and `connections` have been invoked in some configuration.
InitCliCall ==
    /\ env \in CliEnvironments
    /\ cfgFile \in ConfigFiles
    /\ argName \in NameArgs
    /\ resPc = "idle"
    /\ resolved = NoConnectionConfigured
    /\ startPc = "mkdir"
    /\ startFg \in BOOLEAN
    /\ startCfg = NoConnectionConfigured
    /\ startOut = <<>>
    /\ startResult = "none"
    /\ startForked = FALSE
    /\ startPid = None
    /\ connPc = "call"
    /\ connOut = <<>>
    /\ connResult = "none"

\* No resolve call in progress.
InitResIdle ==
    /\ env = NoEnvironment
    /\ cfgFile = None
    /\ argName = None
    /\ resPc = "idle"
    /\ resolved = NoConnectionConfigured

\* A process about to call resolve_connection, in any environment.
InitResCall ==
    /\ env \in Environments
    /\ cfgFile \in ConfigFiles
    /\ argName \in NameArgs
    /\ resPc = "call"
    /\ resolved = NoConnectionConfigured

Init ==
    /\ InitLife
    /\ InitTx
    /\ InitResIdle
    /\ InitPool
    /\ InitQueryIdle
    /\ InitCliIdle

Next ==
    \/ \E p \in PIDs, fg \in BOOLEAN : DaemonStart(p, fg)
    \/ \E p \in PIDs : DaemonStartInterrupted(p)
    \/ \E p \in PIDs, clean \in BOOLEAN : ProcExit(p, clean)
    \/ \E p \in PIDs, c \in OtherComms : ProcSpawn(p, c)
    \/ StopInvoke
    \/ \E reply \in {"fail", "ok_true", "ok_false"} : StopGraceful(reply)
    \/ StopReadPid
    \/ StopCheck
    \/ StopKill
    \/ StopSleep
    \/ StopCleanup
    \/ StopReturn
    \/ StatusInvoke
    \/ StatusCheckSocket
    \/ StatusConnect
    \/ \E reply \in HealthReplies : StatusHealth(reply)
    \/ StatusReturn

Spec == Init /\ [][Next]_vars

(***************************************************************************)
(* The transaction specification                                           *)
(***************************************************************************)
NextTx ==
    \/ SvcDispatch
    \/ SvcTransaction
    \/ \E ok \in BOOLEAN : ClientGet(ok)
    \/ \E ok \in BOOLEAN : ClientBegin(ok)
    \/ \E fault \in BOOLEAN : ClientExecute(fault)
    \/ \E ok \in BOOLEAN : ClientCommit(ok)
    \/ SvcReturn

SpecTx == Init /\ [][NextTx]_vars

(***************************************************************************)
(* The resolver specification                                              *)
(***************************************************************************)
NextResolve == Resolve

InitResolve ==
    /\ InitLife
    /\ InitTx
    /\ InitResCall
    /\ InitPool
    /\ InitQueryIdle
    /\ InitCliIdle

SpecResolve == InitResolve /\ [][NextResolve]_vars

(***************************************************************************)
(* The pool specification                                                  *)
(***************************************************************************)
NextPool ==
    \/ \E c \in Callers : OnStartCall(c)
    \/ \E c \in Callers, serve \in BOOLEAN : OnStartReturn(c, serve)
    \/ \E c \in Callers, op \in ClientOps : Call(c, op)
    \/ \E c \in Callers : Acquire(c)
    \/ \E c \in Callers : AcquireFail(c)
    \/ \E c \in Callers, reply \in {"ok", "not_one", "err"} :
           RoundTrip(c, reply)
    \/ \E c \in Callers : Return(c)
    \/ \E c \in Callers : Complete(c)

SpecPool == Init /\ [][NextPool]_vars

(***************************************************************************)
(* The query specification                                                 *)
(***************************************************************************)
NextQuery == Query

InitQuery ==
    /\ InitLife
    /\ InitTx
    /\ InitResIdle
    /\ InitPool
    /\ InitQueryCall
    /\ InitCliIdle

SpecQuery == InitQuery /\ [][NextQuery]_vars

(***************************************************************************)
(* The command-line specification                                          *)
(***************************************************************************)
NextCli ==
    \/ \E ok \in BOOLEAN : StartMkdir(ok)
    \/ StartResolve
    \/ StartPrint
    \/ \E p \in PIDs, ok \in BOOLEAN : StartDecide(p, ok)
    \/ \E ok \in BOOLEAN : StartServe(ok)
    \/ CmdConnections

InitCli == InitLife /\ InitTx /\ InitPool /\ InitQueryIdle /\ InitCliCall

SpecCli == InitCli /\ [][NextCli]_vars

(***************************************************************************)
(* Lifecycle claims                                                        *)
(***************************************************************************)
StopOnPidPath == stopPc \in {"read_pid", "check", "kill", "sleep", "cleanup"}

\* C1 (as claimed): in the PID-based fallback of stop, SIGTERM is sent only
\* when the process that ps reported under the PID has the expected daemon
\* binary name fgp-postgres; a refused stop has sent no signal and ends in
\* an error.
C1_StopSafety ==
    /\ stopSignalled # None =>
           /\ stopPsOut # None
           /\ stopPsOut[1].success
           /\ Trim(stopPsOut[1].stdout) = expected_name
    /\ stopResult = "err_refused" =>
           /\ stopSignalled = None
           /\ stopPsOut # None

\* C5 (as claimed): status reports RUNNING only when the socket existed, the
\* connection succeeded and the health request received a successful
\* response, whose payload the report carries.
C5_RunningOnlyOnSuccess ==
    statusReport = "RUNNING" =>
        /\ statusSockSeen
        /\ statusConn = "ok"
        /\ statusResp = Some(ReplyLine("ok_true"))
        /\ statusHealth = Some(Trim(ReplyLine("ok_true")))

\* What status reports: NOT RUNNING exactly when it saw no socket, and then
\* it attempted no connection; NOT RESPONDING exactly when it saw the socket
\* and the connection attempt failed.
C6_StatusReports ==
    /\ statusReport = "NOT RUNNING" =>
           ~statusSockSeen /\ statusConn = "none"
    /\ statusReport = "NOT RESPONDING" =>
           statusSockSeen /\ statusConn = "err"
    /\ statusPc = "done" /\ ~statusSockSeen => statusReport = "NOT RUNNING"
    /\ statusPc = "done" /\ statusConn = "err" =>
           statusReport = "NOT RESPONDING"
    /\ statusConn # "none" => statusSockSeen

\* C6: the reports above hold in every state, and every step of status
\* leaves the socket file and the PID file as they were.
C6_StatusDistinguishes ==
    /\ []C6_StatusReports
    /\ [][statusVars' # statusVars => UNCHANGED fsVars]_vars

C6_Witness ==
    /\ statusPc = "done"
    /\ statusReport = "NOT RESPONDING"
    /\ socketFile
    /\ ~Connectable

\* C7: an acknowledged stop request ends stop successfully with the PID file
\* unread and no signal sent; stop is on its PID-based path only when it saw
\* no socket, the connection failed, the stop request failed or the response
\* was not an acknowledgement; and a stop request is only ever sent over a
\* socket that was seen and connected.
C7_StopPrefersGraceful ==
    /\ stopResp = "ok_true" =>
           /\ stopPc = "done"
           /\ stopResult = "ok"
           /\ ~stopReadPid
           /\ stopPid = None
           /\ stopSignalled = None
    /\ (StopOnPidPath \/ stopReadPid \/ stopSignalled # None) =>
           \/ ~stopSockSeen
           \/ stopConn = "err"
           \/ stopResp \in {"fail", "ok_false"}
    /\ stopResp # "none" => stopSockSeen /\ stopConn = "ok"
    /\ stopSignalled # None => stopReadPid

C7_Witness ==
    /\ stopPc = "done"
    /\ stopResp = "ok_true"
    /\ stopResult = "ok"
    /\ pidFile # None

\* C8 (as claimed): whenever stop took the PID-based path and read a PID
\* from the PID file, the socket file and the PID file are both gone when
\* stop returns, and stop returns success.
C8_FallbackCleansUp ==
    [][(stopPc # "done" /\ stopPc' = "done" /\ stopPid' # None) =>
           /\ socketFile' = FALSE
           /\ pidFile' = None
           /\ stopResult' = "ok"]_vars

(***************************************************************************)
(* Transaction claims                                                      *)
(***************************************************************************)
WireIdx == 1..Len(txWire)
StatementFailed(j) == txWire[j].kind = "stmt" /\ ~txWire[j].ok

\* C2: when a statement of the list fails (it is then the first to fail,
\* nothing having run after an earlier failure), transaction returns the
\* error "Statement i failed" with i its 0-based index, no committed=true
\* result exists, no statement with a greater index was sent, no COMMIT was
\* sent, the transaction was rolled back and the database holds what it held
\* before the call.
C2_AllOrNothing ==
    \A j \in WireIdx :
        StatementFailed(j) =>
            LET i == txWire[j].idx
            IN  /\ i = j - 2
                /\ \A m \in 2..(j - 1) : txWire[m].kind = "stmt" /\ txWire[m].ok
                /\ txPc = "done"
                /\ txReturn.kind = "err"
                /\ txReturn.msg = "Statement " \o ToDec(i) \o " failed"
                /\ ~txReturn.committed
                /\ txReturn.statements = <<>>
                /\ \A m \in WireIdx :
                       /\ txWire[m].kind = "stmt" => txWire[m].idx <= i
                       /\ txWire[m].kind # "commit"
                /\ txWire[Len(txWire)].kind = "rollback"
                /\ txWork = None
                /\ db = dbBefore

\* [s1, s2, s3] where s1 changed a row inside the transaction and s2 failed.
C2_Witness ==
    /\ txPc = "done"
    /\ Len(txStmts) = 3
    /\ Len(txWire) = 4
    /\ txWire[2].ok
    /\ txWire[2].sql \in {SqlInsert(k) : k \in Keys}
    /\ StatementFailed(3)
    /\ db = dbBefore

\* C3: the commands of one transaction call reach the server as BEGIN, then
\* the given statements one by one in the order given, then at most one
\* closing command; COMMIT is sent only as the command after the last
\* statement and only when every statement succeeded; a successful result
\* has committed=true and one entry per given statement, in order, whose
\* index is the statement's position in the list; and a list of strings
\* reaches the client as given.
C3_OrderedCommit ==
    /\ txWire # <<>> => txWire[1].kind = "begin"
    /\ \A j \in WireIdx :
           /\ j > 1 => txWire[j].kind # "begin" /\ txWire[1].ok
           /\ txWire[j].kind = "stmt" =>
                  /\ j - 1 \in 1..Len(txStmts)
                  /\ txWire[j].idx = j - 2
                  /\ txWire[j].sql = txStmts[j - 1]
           /\ txWire[j].kind \in {"commit", "rollback"} => j = Len(txWire)
           /\ txWire[j].kind = "commit" =>
                  /\ j = Len(txStmts) + 2
                  /\ \A m \in 2..(j - 1) :
                         txWire[m].kind = "stmt" /\ txWire[m].ok
    /\ txReturn.committed <=> txReturn.kind = "ok"
    /\ txReturn.kind = "ok" =>
           /\ txWire[Len(txWire)] = WireMsg("commit", 0 - 1, "COMMIT", TRUE)
           /\ Len(txReturn.statements) = Len(txStmts)
           /\ \A j \in 1..Len(txStmts) :
                  txReturn.statements[j].statement = j - 1
    /\ (txPc \in {"get", "begin", "exec"} \/ txWire # <<>>) =>
           LET given == as_array(txParams[1])[1]
           IN  (\A j \in 1..Len(given) : given[j].t = "string") =>
                   txStmts = [j \in 1..Len(given) |-> given[j].s]

\* A committed call with three statements, not all the same.
C3_Witness ==
    /\ txPc = "done"
    /\ txReturn.kind = "ok"
    /\ Len(txStmts) = 3
    /\ txStmts[1] # txStmts[2]
    /\ db # dbBefore

\* C4: a transaction request whose statement list is empty ends in the error
\* "statements array cannot be empty" with no pool.get() made, no connection
\* held, no command sent to the server and the database untouched.
EmptyStatements ==
    /\ txParams # None
    /\ as_array(txParams[1]) # None
    /\ FilterMapStr(as_array(txParams[1])[1]) = <<>>

C4_EmptyRejected ==
    (EmptyStatements /\ txPc # "validate") =>
        /\ txPc = "done"
        /\ txReturn = ErrReturn("statements array cannot be empty")
        /\ poolGets = 0
        /\ poolInUse = 0
        /\ txWire = <<>>
        /\ txWork = None
        /\ db = dbBefore

C4_Witness ==
    /\ txPc = "done"
    /\ txParams = Some(JArr(<<>>))
    /\ txReturn.kind = "err"
    /\ db # {}

\* The value under "statements" is absent, is not a list, or is a list with
\* an element that is not a string.
NotListOfStrings ==
    \/ txParams = None
    \/ as_array(txParams[1]) = None
    \/ \E i \in 1..Len(as_array(txParams[1])[1]) :
           as_str(as_array(txParams[1])[1][i]) = None

\* C13 (as claimed, for the transaction method): a request whose
\* `statements` is absent or is not a list of strings, a list with a
\* non-string element included, ends in a missing-parameter error naming
\* `statements`, with no pool.get() made, no command sent to the server and
\* the database untouched.
C13_ParamValidation ==
    (NotListOfStrings /\ txPc \notin {"idle", "validate"}) =>
        /\ txPc = "done"
        /\ txReturn.kind = "err"
        /\ Contains(txReturn.msg, "Missing required parameter: statements")
        /\ poolGets = 0
        /\ txWire = <<>>
        /\ db = dbBefore

(***************************************************************************)
(* Resolver claims                                                         *)
(***************************************************************************)
DiscreteVars == {"PGHOST", "PGPORT", "PGUSER", "PGPASSWORD", "PGDATABASE",
                 "PGSSLMODE"}
AnyDiscreteSet == \E v \in DiscreteVars : env[v] # None

\* The tier-2 descriptor: each variable, or its fixed default when absent.
Tier2Descriptor ==
    [host |-> IF env.PGHOST = None THEN "localhost" ELSE env.PGHOST[1],
     port |-> IF env.PGPORT = None \/ ParseU16(env.PGPORT[1]) = None
              THEN 5432 ELSE ParseU16(env.PGPORT[1])[1],
     user |-> IF env.PGUSER = None THEN "postgres" ELSE env.PGUSER[1],
     password |-> env.PGPASSWORD,
     database |-> IF env.PGDATABASE = None THEN "postgres"
                  ELSE env.PGDATABASE[1],
     ssl |-> env.PGSSLMODE # None /\ env.PGSSLMODE # Some("disable")]

\* C9 (as claimed): resolve returns the result of the first tier present:
\* the URL variable when set; else, when any discrete variable is set, the
\* tier-2 descriptor with every absent variable defaulted; else the
\* connections file.
C9_Precedence ==
    resPc = "done" =>
        /\ env.DATABASE_URL # None =>
               resolved = from_url(env.DATABASE_URL[1])
        /\ (env.DATABASE_URL = None /\ AnyDiscreteSet) =>
               resolved = Ok(Tier2Descriptor)
        /\ (env.DATABASE_URL = None /\ ~AnyDiscreteSet) =>
               resolved = FileTier(argName, cfgFile)

\* C10 (as claimed): with a connection name passed explicitly and an entry
\* of that name in the connections file, resolve returns that entry's
\* descriptor, whatever the environment variables hold.
C10_ExplicitNameFirst ==
    (/\ resPc = "done"
     /\ argName # None
     /\ cfgFile # None
     /\ cfgFile[1].parses
     /\ argName[1] \in DOMAIN cfgFile[1].connections) =>
        resolved = EntryConfig(cfgFile[1].connections[argName[1]])

\* The descriptor of a file entry: a URL entry parsed as the URL variable is,
\* a discrete entry with each absent field at its fixed default.
EntryDescriptor(entry) ==
    IF entry.url # None
    THEN from_url(entry.url[1])
    ELSE Ok([host |-> IF entry.host = None THEN "localhost"
                      ELSE entry.host[1],
             port |-> IF entry.port = None THEN 5432 ELSE entry.port[1],
             user |-> IF entry.user = None THEN "postgres"
                      ELSE entry.user[1],
             password |-> entry.password,
             database |-> IF entry.database = None THEN "postgres"
                          ELSE entry.database[1],
             ssl |-> entry.ssl = Some(TRUE)])

\* The name the file tier selects: the explicit argument, else the default.
SelectedName ==
    IF argName # None THEN argName
    ELSE IF cfgFile # None THEN cfgFile[1].default ELSE None

\* C11: with no environment variable set, resolve fails with the
\* no-connection-configured error when the file is absent; with a readable
\* file it returns the descriptor of the entry under the explicit name, else
\* under the file's default, and fails with no-connection-configured when no
\* name is selected or the selected name has no entry (a missing explicit
\* name never falls back to the default entry).
C11_FileTier ==
    (resPc = "done" /\ env = NoEnvironment) =>
        /\ cfgFile = None => resolved = NoConnectionConfigured
        /\ (cfgFile # None /\ cfgFile[1].parses) =>
               IF SelectedName # None
                  /\ SelectedName[1] \in DOMAIN cfgFile[1].connections
               THEN resolved =
                        EntryDescriptor(cfgFile[1].connections[SelectedName[1]])
               ELSE resolved = NoConnectionConfigured

\* An explicit name without an entry, in a file whose default has one.
C11_Witness ==
    /\ resPc = "done"
    /\ env = NoEnvironment
    /\ argName = Some("b")
    /\ cfgFile # None
    /\ cfgFile[1].parses
    /\ cfgFile[1].default = Some("a")
    /\ DOMAIN cfgFile[1].connections = {"a"}
    /\ resolved = NoConnectionConfigured

\* C12 (as claimed): every descriptor resolve returns successfully has its
\* port in 1..65535 and a non-empty user and database.
C12_DescriptorInvariant ==
    (resPc = "done" /\ resolved.ok) =>
        /\ resolved.cfg.port \in 1..U16Max
        /\ resolved.cfg.user # ""
        /\ resolved.cfg.database # ""

(***************************************************************************)
(* Service and pool claims                                                 *)
(***************************************************************************)
\* C14 (as claimed): once on_start has returned it has made exactly one
\* connectivity probe and has reported success, whatever the probe found; a
\* failed probe has only been logged as an error.
C14_DegradedStart ==
    svcPc \in {"serving", "failed"} =>
        /\ startProbes = 1
        /\ hookResult = "ok"

\* C19: every operation holds at most one pooled connection, holds none
\* while it waits for one and none once it has completed, with success or
\* with an error; the connections in use never exceed the pool's capacity;
\* and with every call completed no connection is in use.
C19_PoolDiscipline ==
    /\ \A c \in Callers :
           /\ callHeld[c] \in {0, 1}
           /\ callPc[c] \in {"idle", "get", "done"} => callHeld[c] = 0
           /\ callPc[c] \in {"run", "ret"} => callHeld[c] = 1
    /\ InUse <= PoolSize
    /\ (\A c \in Callers : callPc[c] \in {"idle", "done"}) => InUse = 0

\* A table_schema call has completed with an error and holds nothing while
\* another call runs on the pool's last connection.
C19_Witness ==
    \E c1, c2 \in Callers :
        /\ c1 # c2
        /\ callPc[c1] = "done"
        /\ callResult[c1] = "err"
        /\ callOp[c1] = "table_schema"
        /\ callHeld[c1] = 0
        /\ callPc[c2] = "run"
        /\ callHeld[c2] = 1
        /\ InUse = PoolSize

(***************************************************************************)
(* Converter claims                                                        *)
(***************************************************************************)
ColumnNames == {qCols[i].name : i \in 1..Len(qCols)}

\* C16 (as claimed): every result query returns has row_count equal to the
\* number of rows, columns equal to the statement's column names in
\* projection order, and in every row-object exactly the keys of columns,
\* one key for each listed column.
C16_QueryResult ==
    (qPc = "done" /\ qResult.kind = "ok") =>
        /\ qResult.row_count = Len(qResult.rows)
        /\ Len(qResult.rows) = Len(qRows)
        /\ qResult.columns = [i \in 1..Len(qCols) |-> qCols[i].name]
        /\ \A r \in 1..Len(qResult.rows) :
               /\ DOMAIN qResult.rows[r] = ColumnNames
               /\ Cardinality(DOMAIN qResult.rows[r]) = Len(qResult.columns)

\* Every value of every row the server returned is NULL.
AllNull == \A r \in 1..Len(qRows) : \A i \in 1..Len(qCols) : qRows[r][i] = None

\* C17 (as claimed): a query whose rows hold only NULL values returns, for
\* columns of any types, and every value of every row-object is the JSON
\* null.
C17_NullConversion ==
    (qPc = "done" /\ AllNull) =>
        /\ qResult.kind = "ok"
        /\ \A r \in 1..Len(qResult.rows) :
               \A k \in DOMAIN qResult.rows[r] : qResult.rows[r][k] = JNull

(***************************************************************************)
(* Command-line claims                                                     *)
(***************************************************************************)
\* C15: start has forked, written the PID file, designated the serving
\* process or bound the socket only after resolve_connection succeeded; and
\* when resolution fails start ends with that error in the invoking process,
\* with no fork made, no PID file, no socket and no daemon process.
C15_ResolveBeforeDetach ==
    /\ (startForked \/ startPid # None \/ pidFile # None \/ socketFile
        \/ startPc \in {"decide", "serve"}) => startCfg.ok
    /\ (/\ startPc = "done"
        /\ startResult # "err_mkdir"
        /\ ~resolve_connection(argName, env, cfgFile).ok) =>
           /\ startResult = "err_resolve"
           /\ ~startForked
           /\ startPid = None
           /\ pidFile = None
           /\ ~socketFile
           /\ \A p \in PIDs : ~Alive(p)

\* A detached start that failed to resolve its configuration.
C15_Witness ==
    /\ startPc = "done"
    /\ ~startFg
    /\ env.DATABASE_URL = Some(UrlBad)
    /\ startResult = "err_resolve"
    /\ ~startForked

\* The passwords of the configuration: of the entries of the file, of their
\* URLs, of the URL variable and the password variable.
UrlPasswords(u) == IF u = None \/ u[1].password = None THEN {}
                   ELSE {u[1].password[1]}
Passwords ==
    UrlPasswords(env.DATABASE_URL)
    \cup (IF env.PGPASSWORD = None THEN {} ELSE {env.PGPASSWORD[1]})
    \cup (IF cfgFile = None THEN {}
          ELSE UNION {UrlPasswords(cfgFile[1].connections[n].url)
                      \cup (IF cfgFile[1].connections[n].password = None
                            THEN {}
                            ELSE {cfgFile[1].connections[n].password[1]}) :
                      n \in DOMAIN cfgFile[1].connections})

\* C18 (as claimed): no line that `connections` or `start` printed contains
\* a password of the configuration.
C18_PasswordsMasked ==
    \A pw \in Passwords :
        /\ \A i \in DOMAIN connOut : ~Contains(connOut[i], pw)
        /\ \A i \in DOMAIN startOut : ~Contains(startOut[i], pw)

(***************************************************************************)
(* Stop: what is left behind                                               *)
(***************************************************************************)
\* C20 (as claimed): at every return of stop with success, by the graceful
\* path or the PID path, neither the socket file nor the PID file exists.
C20_NoArtifactsAfterStop ==
    [][(stopPc # "done" /\ stopPc' = "done" /\ stopResult' = "ok") =>
           (socketFile' = FALSE /\ pidFile' = None)]_vars

====
